---------------------------- MODULE Spec2Model ----------------------------
(***************************************************************************)
(* State machine of the App component of src/App.tsx: the session          *)
(* lifecycle (startSession / stopSession and the remote callbacks), the    *)
(* capture callback that sends the microphone's blocks, the playback       *)
(* scheduling of inbound audio parts, and the transcript reconciliation    *)
(* into the bounded conversation history.                                  *)
(*                                                                         *)
(* JavaScript runs each callback to its next await as one atomic step, so  *)
(* every action below is one such run: a click, the resumption after an    *)
(* await, a remote callback, the platform's clock or an 'ended' event.     *)
(***************************************************************************)
EXTENDS Integers, Sequences, FiniteSets, TLC

\* ------------------------------------------------------------------ bounds
MaxSessions == 2     \* startSession set-ups (each owns one session id)
MaxMsgs     == 2     \* inbound messages delivered over the whole run
MaxHandlers == 2     \* onmessage invocations suspended at the decode await
MaxTime     == 1     \* last value of the output clock
MaxPlaySessions == 1 \* the same, where only audio and interruptions arrive
MaxAudioMsgs == 3
MaxPlayTime == 2
MaxTextSessions == 1 \* the same, where only text and turn boundaries arrive
MaxTextMsgs == 2
MaxDur      == 2     \* longest decoded buffer
MaxParts    == 3     \* most parts in one message
MaxLog      == 2     \* started parts remembered
MaxCapSessions == 1  \* set-ups, where the microphone delivers blocks
MaxBlocks   == 2     \* blocks delivered to one scriptProcessor

\* the slice(-2) of the history updater
HistoryLimit == 2

VARIABLES
    isActive,          \* useState isActive
    isSyncing,         \* useState isSyncing
    closureActive,     \* isActive as captured by the startSession of the last render
    transcription,     \* useState transcription {user, ai}
    history,           \* useState history, as of the last evaluated updater
    pendingUpdaters,   \* setHistory updaters queued and not yet evaluated
    audioContexts,     \* useRef audioContexts: "null" or the two contexts' states
    liveSession,       \* useRef liveSession: 0 is null, else a session id
    nextStartTime,     \* useRef nextStartTime
    sources,           \* useRef sources: the AudioBufferSourceNodes in the set
    transcriptionRef,  \* useRef transcriptionRef {user, ai}
    starts,            \* position of each startSession invocation
    sessions,          \* state of each remote session
    handlers,          \* the onmessage invocations
    now,               \* outCtx.currentTime
    capture,           \* each onopen's scriptProcessor: blocks taken, frames sent
    obs                \* observations of the run (what the last step did, logs)

vars == << isActive, isSyncing, closureActive, transcription, history,
           pendingUpdaters, audioContexts, liveSession, nextStartTime, sources,
           transcriptionRef, starts, sessions, handlers, now, capture, obs >>

Sessions == 1..MaxSessions
Handlers == 1..MaxHandlers

Max(a, b) == IF a >= b THEN a ELSE b

EmptyText == << >>
EmptyTranscription == [user |-> EmptyText, ai |-> EmptyText]

\* Array.prototype.slice(-n)
SliceLast(s, n) ==
    IF Len(s) <= n THEN s ELSE SubSeq(s, Len(s) - n + 1, Len(s))


\* --------------------------------------------------------------- the state
IdleHandler ==
    [pc |-> "idle", dur |-> 0, rest |-> << >>,
     msg |-> [inT |-> << >>, outT |-> << >>,
              turnComplete |-> FALSE, interrupted |-> FALSE]]

\* what is remembered about the part a handler is decoding (observation only)
NoPart == [arr |-> 0, at |-> 0, stale |-> FALSE, solo |-> TRUE, first |-> FALSE]

\* a scriptProcessor before its onopen: not wired, nothing captured
NoCapture == [wired |-> FALSE, blocks |-> 0, queued |-> << >>, sent |-> << >>]

InitObs ==
    [op       |-> {},        \* which of the steps the claims name the last step ran
     msgs     |-> 0,         \* messages delivered
     arrivals |-> 0,         \* audio parts that reached line 104
     part     |-> [h \in Handlers |-> NoPart],
     run      |-> 0,         \* parts started since the cursor was last reset
     log      |-> << >>,     \* the last MaxLog of them, in the order started
     armed    |-> FALSE,     \* an interruption found two handles active
     prev     |-> << >>,     \* history before the last updater evaluation
     committed |-> << >>,    \* entries pushed by the last updater evaluation
     intended |-> << >>]     \* history if every commit took the text at its signal

Init ==
    /\ isActive = FALSE
    /\ isSyncing = FALSE
    /\ closureActive = FALSE
    /\ transcription = EmptyTranscription
    /\ history = << >>
    /\ pendingUpdaters = 0
    /\ audioContexts = [made |-> FALSE, input |-> "none", output |-> "none"]
    /\ liveSession = 0
    /\ nextStartTime = 0
    /\ sources = {}
    /\ transcriptionRef = EmptyTranscription
    /\ starts = [k \in Sessions |-> "none"]
    /\ sessions = [k \in Sessions |-> "none"]
    /\ handlers = [h \in Handlers |-> IdleHandler]
    /\ now = 0
    /\ capture = [k \in Sessions |-> NoCapture]
    /\ obs = InitObs

\* a reset of the cursor ends the run of parts the log describes, and every
\* part still decoding has now seen an interruption or a stop
ObsReset(o, busy) ==
    [o EXCEPT !.log = << >>,
              !.run = 0,
              !.part = [h \in Handlers |->
                          IF h \in busy
                          THEN [o.part[h] EXCEPT !.stale = TRUE]
                          ELSE o.part[h]]]

Decoding == {h \in Handlers : handlers[h].pc = "decode"}

Did(o, ops) == [o EXCEPT !.op = ops]

\* the step repeats the step before it: that one ran one of `ops` too
Again(ops) == IF obs.op \cap ops # {} THEN {"again"} ELSE {}

\* ------------------------------------------------------------ stopSession
\* session.close(): an open session starts closing, its onclose is still owed
CloseSession(ss, k) ==
    IF k # 0 /\ ss[k] = "open" THEN [ss EXCEPT ![k] = "closing"] ELSE ss

\* (mutant) stopSession also drops the committed history
StopSessionClearsHistory(ss) ==
    /\ isActive' = FALSE
    /\ isSyncing' = FALSE
    /\ sessions' = CloseSession(ss, liveSession)
    /\ liveSession' = 0
    /\ sources' = {}
    /\ nextStartTime' = 0
    /\ transcription' = EmptyTranscription
    /\ transcriptionRef' = EmptyTranscription
    /\ history' = << >>
    /\ pendingUpdaters' = pendingUpdaters

\* (mutant) only one of the handles is stopped and removed
StopSessionStopsOne(ss) ==
    /\ isActive' = FALSE
    /\ isSyncing' = FALSE
    /\ sessions' = CloseSession(ss, liveSession)
    /\ liveSession' = 0
    /\ sources' = IF sources = {} THEN {}
                  ELSE sources \ {CHOOSE s \in sources : TRUE}
    /\ nextStartTime' = 0
    /\ transcription' = EmptyTranscription
    /\ transcriptionRef' = EmptyTranscription
    /\ history' = history
    /\ pendingUpdaters' = pendingUpdaters

\* stopSession, lines 27-41, run while the sessions are in state ss
StopSession(ss) ==
    /\ isActive' = FALSE
    /\ isSyncing' = FALSE
    /\ sessions' = CloseSession(ss, liveSession)
    /\ liveSession' = 0
    /\ sources' = {}
    /\ nextStartTime' = 0
    /\ transcription' = EmptyTranscription
    /\ transcriptionRef' = EmptyTranscription
    /\ history' = history
    /\ pendingUpdaters' = pendingUpdaters

\* ----------------------------------------------------------- startSession
\* the toggle clicked while the rendered closure holds isActive = true
ClickStop ==
    /\ closureActive
    /\ StopSession(sessions)
    /\ obs' = Did(ObsReset(obs, Decoding), {"stop"} \cup Again({"stop", "onerror"}))
    /\ UNCHANGED << capture, closureActive, audioContexts, starts, handlers, now >>

CtxStates == {"suspended", "running"}

\* the await startSession reaches next, from the contexts' states
NextAwait(ctx, inputDone) ==
    IF ~inputDone /\ ctx.input = "suspended" THEN "resumeIn"
    ELSE IF ctx.output = "suspended" THEN "resumeOut"
    ELSE "media"

NextId == IF \E k \in Sessions : starts[k] = "none"
          THEN CHOOSE k \in Sessions :
                   starts[k] = "none" /\ \A j \in 1..(k-1) : starts[j] # "none"
          ELSE 0

\* the toggle clicked while the closure holds isActive = false: lines 49-60
ClickStart(k, cin, cout) ==
    /\ ~closureActive
    /\ k = NextId /\ k # 0
    /\ isSyncing' = TRUE
    /\ audioContexts' = IF audioContexts.made THEN audioContexts
                         ELSE [made |-> TRUE, input |-> cin, output |-> cout]
    /\ audioContexts.made => (cin = "running" /\ cout = "running")
    /\ starts' = [starts EXCEPT ![k] = NextAwait(audioContexts', FALSE)]
    /\ obs' = Did(obs, {})
    /\ UNCHANGED << capture, isActive, closureActive, transcription, history,
                    pendingUpdaters, liveSession, nextStartTime, sources,
                    transcriptionRef, sessions, handlers, now >>

\* (mutant) the catch block leaves the syncing flag as it is
CatchKeepsSyncing(k) ==
    /\ isSyncing' = isSyncing
    /\ starts' = [starts EXCEPT ![k] = "done"]

\* the catch block, lines 171-174
Catch(k) ==
    /\ isSyncing' = FALSE
    /\ starts' = [starts EXCEPT ![k] = "done"]

\* await audioContexts.current.input.resume(), lines 59-61
ResumeInput(k, ok) ==
    /\ starts[k] = "resumeIn"
    /\ IF ok
       THEN /\ audioContexts' = [audioContexts EXCEPT !.input = "running"]
            /\ starts' = [starts EXCEPT ![k] = NextAwait(audioContexts', TRUE)]
            /\ UNCHANGED isSyncing
       ELSE Catch(k) /\ UNCHANGED audioContexts
    /\ obs' = Did(obs, {})
    /\ UNCHANGED << capture, isActive, closureActive, transcription, history,
                    pendingUpdaters, liveSession, nextStartTime, sources,
                    transcriptionRef, sessions, handlers, now >>

\* await audioContexts.current.output.resume(), lines 62-64
ResumeOutput(k, ok) ==
    /\ starts[k] = "resumeOut"
    /\ IF ok
       THEN /\ audioContexts' = [audioContexts EXCEPT !.output = "running"]
            /\ starts' = [starts EXCEPT ![k] = "media"]
            /\ UNCHANGED isSyncing
       ELSE Catch(k) /\ UNCHANGED audioContexts
    /\ obs' = Did(obs, {})
    /\ UNCHANGED << capture, isActive, closureActive, transcription, history,
                    pendingUpdaters, liveSession, nextStartTime, sources,
                    transcriptionRef, sessions, handlers, now >>

\* await getUserMedia, then ai.live.connect(...): lines 66-69
GetUserMedia(k, ok) ==
    /\ starts[k] = "media"
    /\ IF ok
       THEN /\ sessions' = [sessions EXCEPT ![k] = "connecting"]
            /\ starts' = [starts EXCEPT ![k] = "connect"]
            /\ UNCHANGED isSyncing
       ELSE Catch(k) /\ UNCHANGED sessions
    /\ obs' = Did(obs, {})
    /\ UNCHANGED << capture, isActive, closureActive, transcription, history,
                    pendingUpdaters, audioContexts, liveSession, nextStartTime,
                    sources, transcriptionRef, handlers, now >>

\* session.sendRealtimeInput({ media: pcmBlob }), line 91: the frame of block b,
\* handed to a session in state `to`; early if it waited for the promise
Frame(b, to, early) == [block |-> b, to |-> to, early |-> early]

RECURSIVE Frames(_, _)
Frames(blocks, to) ==
    IF blocks = << >> THEN << >>
    ELSE << Frame(Head(blocks), to, TRUE) >> \o Frames(Tail(blocks), to)

\* sessionPromise resolves: the then-callbacks registered at line 90 run in
\* the order they were registered
SendQueued(c, to) ==
    [c EXCEPT !.sent = @ \o Frames(c.queued, to), !.queued = << >>]

\* sessionPromise resolves, lines 90-92 and 169: liveSession.current is
\* assigned (the await was registered first), then the waiting frames are sent
ConnectResolve(k) ==
    /\ starts[k] = "connect"
    /\ sessions[k] \in {"open", "closing", "closed"}
    /\ liveSession' = k
    /\ starts' = [starts EXCEPT ![k] = "done"]
    /\ capture' = [capture EXCEPT ![k] = SendQueued(@, sessions[k])]
    /\ obs' = Did(obs, {})
    /\ UNCHANGED << isActive, isSyncing, closureActive, transcription, history,
                    pendingUpdaters, audioContexts, nextStartTime, sources,
                    transcriptionRef, sessions, handlers, now >>

\* the awaited connect rejects, lines 169-174
ConnectReject(k) ==
    /\ starts[k] = "connect"
    /\ sessions[k] \in {"failing", "failed"}
    /\ Catch(k)
    /\ obs' = Did(obs, {})
    /\ UNCHANGED << capture, isActive, closureActive, transcription, history,
                    pendingUpdaters, audioContexts, liveSession, nextStartTime,
                    sources, transcriptionRef, sessions, handlers, now >>

\* ------------------------------------------------------- remote callbacks
\* onopen, lines 72-97
OnOpen(k) ==
    /\ sessions[k] = "connecting"
    /\ sessions' = [sessions EXCEPT ![k] = "open"]
    /\ isActive' = TRUE
    /\ isSyncing' = FALSE
    /\ capture' = [capture EXCEPT ![k].wired = TRUE]
    /\ obs' = Did(obs, {})
    /\ UNCHANGED << closureActive, transcription, history, pendingUpdaters,
                    audioContexts, liveSession, nextStartTime, sources,
                    transcriptionRef, starts, handlers, now >>

\* the connection of session k is lost: its socket is dead from here on
Dead(ss, k) ==
    [ss EXCEPT ![k] = IF @ = "connecting" THEN "failing"
                      ELSE IF @ = "open" THEN "closing" ELSE @]

\* onerror, lines 149-152
OnError(k) ==
    /\ sessions[k] \in {"connecting", "open"}
    /\ StopSession(Dead(sessions, k))
    /\ obs' = Did(ObsReset(obs, Decoding),
                  {"onerror"} \cup Again({"stop", "onerror"}))
    /\ UNCHANGED << capture, closureActive, audioContexts, starts, handlers, now >>

\* onclose, lines 153-156
OnClose(k) ==
    /\ sessions[k] \in {"connecting", "open", "closing", "failing"}
    /\ sessions' = [sessions EXCEPT ![k] =
                        IF @ \in {"open", "closing"} THEN "closed" ELSE "failed"]
    /\ isActive' = FALSE
    /\ isSyncing' = FALSE
    /\ obs' = Did(obs, {"onclose"})
    /\ UNCHANGED << capture, closureActive, transcription, history, pendingUpdaters,
                    audioContexts, liveSession, nextStartTime, sources,
                    transcriptionRef, starts, handlers, now >>

\* ------------------------------------------------------------ the capture
\* (mutant) a block captured before the promise has resolved is dropped
SendOrDrop(c, resolved, to) ==
    IF resolved
    THEN [c EXCEPT !.blocks = @ + 1,
                   !.sent = Append(@, Frame(c.blocks + 1, to, FALSE))]
    ELSE [c EXCEPT !.blocks = @ + 1]

\* lines 78-93: the block is framed and its send chained on sessionPromise; the
\* then-callback runs at once if the promise has resolved, else when it does
SendOrQueue(c, resolved, to) ==
    IF resolved
    THEN [c EXCEPT !.blocks = @ + 1,
                   !.sent = Append(@, Frame(c.blocks + 1, to, FALSE))]
    ELSE [c EXCEPT !.blocks = @ + 1, !.queued = Append(@, c.blocks + 1)]

\* scriptProcessor.onaudioprocess of the onopen of session k, lines 78-93.
\* Nothing disconnects the processor: it runs from onopen on.
OnAudioProcess(k) ==
    /\ capture[k].wired
    /\ capture[k].blocks < MaxBlocks
    /\ capture' = [capture EXCEPT
                      ![k] = SendOrQueue(@, starts[k] = "done", sessions[k])]
    /\ obs' = Did(obs, {})
    /\ UNCHANGED << isActive, isSyncing, closureActive, transcription, history,
                    pendingUpdaters, audioContexts, liveSession, nextStartTime,
                    sources, transcriptionRef, starts, sessions, handlers, now >>

\* ---------------------------------------------------------------- onmessage
\* inbound messages: parts (0 is a part without inlineData.data, d > 0 an audio
\* part whose decoded buffer lasts d), the two transcription fragments (absent
\* or a text, possibly empty) and the two signals
Fragments == { << >>, << "a" >> }
Option(S) == { << >> } \cup { << x >> : x \in S }
PartSeqs == UNION { [1..n -> 0..MaxDur] : n \in 0..MaxParts }
Messages ==
    [parts : PartSeqs, inT : Option(Fragments), outT : Option(Fragments),
     turnComplete : BOOLEAN, interrupted : BOOLEAN]

\* the refs and state an onmessage invocation works on, as one value
Local ==
    [cursor |-> nextStartTime, srcs |-> sources, ref |-> transcriptionRef,
     tr |-> transcription, hist |-> history, pend |-> pendingUpdaters,
     o |-> obs]

\* lines 130-136: the entries the updater pushes, from transcriptionRef.current
NewEntries(ref) ==
    (IF ref.user # EmptyText THEN << [text |-> ref.user, role |-> "user"] >>
     ELSE << >>)
    \o (IF ref.ai # EmptyText THEN << [text |-> ref.ai, role |-> "ai"] >>
        ELSE << >>)

\* (mutant) slice(0, 2): the newest entries are dropped instead of the oldest
HistoryUpdaterKeepsFirst(prev, ref) ==
    LET all == prev \o NewEntries(ref)
    IN SubSeq(all, 1, IF Len(all) <= HistoryLimit THEN Len(all) ELSE HistoryLimit)

\* lines 129-138: the updater passed to setHistory
HistoryUpdater(prev, ref) == SliceLast(prev \o NewEntries(ref), HistoryLimit)

\* lines 117-121
InputTranscription(st, text) ==
    [st EXCEPT !.ref.user = @ \o text, !.tr.user = @ \o text]

\* lines 122-126
OutputTranscription(st, text) ==
    [st EXCEPT !.ref.ai = @ \o text,
               !.tr = [user |-> EmptyText, ai |-> st.ref.ai \o text]]

\* lines 128-141. React evaluates the updater at once when the update queue is
\* empty (eager), and otherwise at the next render, after line 140 has run.
TurnComplete(st, eager) ==
    LET atOnce == eager /\ st.pend = 0 IN
    [st EXCEPT !.hist = IF atOnce THEN HistoryUpdater(st.hist, st.ref) ELSE @,
               !.pend = IF atOnce THEN @ ELSE @ + 1,
               !.o.prev = IF atOnce THEN st.hist ELSE @,
               !.o.committed = IF atOnce THEN NewEntries(st.ref) ELSE @,
               !.o.op = IF atOnce THEN @ \cup {"commit"} ELSE @,
               !.tr = EmptyTranscription,
               !.ref = EmptyTranscription]

\* (mutant) the cursor is not reset
InterruptedKeepsCursor(st) ==
    [st EXCEPT !.srcs = {}]

\* lines 143-147
Interrupted(st) ==
    [st EXCEPT !.srcs = {}, !.cursor = 0]

\* the invocation does nothing but the interrupted branch: the message holds
\* no text and no turn boundary, and no part of it was started in this step
InterruptOnly(st, m) ==
    /\ m.inT = << >> /\ m.outT = << >> /\ ~m.turnComplete
    /\ st.o.run = obs.run

\* lines 117-147: what follows the loop over the parts
ProcessTail(st, m, eager, busy) ==
    LET s1 == IF m.inT # << >> THEN InputTranscription(st, m.inT[1]) ELSE st
        s2 == IF m.outT # << >> THEN OutputTranscription(s1, m.outT[1]) ELSE s1
        s3 == IF m.turnComplete
              THEN [TurnComplete(s2, eager) EXCEPT
                      !.o.intended = SliceLast(@ \o NewEntries(s2.ref), HistoryLimit),
                      !.o.op = @ \cup {"turnComplete"}]
              ELSE s2
        s4 == IF m.interrupted
              THEN [Interrupted(s3) EXCEPT
                      !.o = [ObsReset(s3.o, busy) EXCEPT
                               !.armed = (Cardinality(s3.srcs) = 2),
                               !.op = @ \cup {"interrupted"}
                                        \cup (IF InterruptOnly(s3, m)
                                              THEN Again({"interrupted"})
                                              ELSE {})]]
              ELSE s3
    IN s4

\* the parts of a message from its first audio part on
RECURSIVE DropNoData(_)
DropNoData(parts) ==
    IF parts = << >> THEN << >>
    ELSE IF Head(parts) # 0 THEN parts ELSE DropNoData(Tail(parts))

\* (mutant) the cursor is left as it is when a part arrives
BeginDecodeKeepsCursor(st, h, busy) ==
    [st EXCEPT !.o.arrivals = @ + 1,
               !.o.armed = FALSE,
               !.o.part = [j \in Handlers |->
                   IF j = h
                   THEN [arr |-> st.o.arrivals + 1, at |-> now, stale |-> FALSE,
                         solo |-> (busy = {}), first |-> st.o.armed]
                   ELSE IF j \in busy THEN [st.o.part[j] EXCEPT !.solo = FALSE]
                   ELSE st.o.part[j]]]

\* (mutant) the cursor is set to the clock instead of raised to it
BeginDecodeNoMax(st, h, busy) ==
    [st EXCEPT !.cursor = now,
               !.o.arrivals = @ + 1,
               !.o.armed = FALSE,
               !.o.part = [j \in Handlers |->
                   IF j = h
                   THEN [arr |-> st.o.arrivals + 1, at |-> now, stale |-> FALSE,
                         solo |-> (busy = {}), first |-> st.o.armed]
                   ELSE IF j \in busy THEN [st.o.part[j] EXCEPT !.solo = FALSE]
                   ELSE st.o.part[j]]]

\* lines 103-105: the cursor is raised to the clock and the decode awaited
BeginDecode(st, h, busy) ==
    [st EXCEPT !.cursor = Max(st.cursor, now),
               !.o.arrivals = @ + 1,
               !.o.armed = FALSE,
               !.o.part = [j \in Handlers |->
                   IF j = h
                   THEN [arr |-> st.o.arrivals + 1, at |-> now, stale |-> FALSE,
                         solo |-> (busy = {}), first |-> st.o.armed]
                   ELSE IF j \in busy THEN [st.o.part[j] EXCEPT !.solo = FALSE]
                   ELSE st.o.part[j]]]

\* (mutant) the cursor is set to the end of the buffer counted from the clock
ScheduleSourceFromClock(st, h) ==
    LET p == st.o.part[h]
        d == handlers[h].dur
    IN [st EXCEPT
          !.srcs = @ \cup {[start |-> st.cursor, dur |-> d, stale |-> p.stale]},
          !.cursor = now + d,
          !.o.part[h] = NoPart,
          !.o.run = @ + 1,
          !.o.log = SliceLast(Append(@, [idx |-> st.o.run + 1, arr |-> p.arr,
                                         at |-> p.at, start |-> st.cursor,
                                         dur |-> d, stale |-> p.stale,
                                         solo |-> p.solo, first |-> p.first]),
                              MaxLog)]

\* lines 106-112: the decoded buffer is started at the cursor
ScheduleSource(st, h) ==
    LET p == st.o.part[h]
        d == handlers[h].dur
    IN [st EXCEPT
          !.srcs = @ \cup {[start |-> st.cursor, dur |-> d, stale |-> p.stale]},
          !.cursor = @ + d,
          !.o.part[h] = NoPart,
          !.o.run = @ + 1,
          !.o.log = SliceLast(Append(@, [idx |-> st.o.run + 1, arr |-> p.arr,
                                         at |-> p.at, start |-> st.cursor,
                                         dur |-> d, stale |-> p.stale,
                                         solo |-> p.solo, first |-> p.first]),
                              MaxLog)]

\* lines 101-147 from the part at the head of `parts` on: up to the next
\* decode await, or through the rest of the handler
Continue(st, h, parts, m, eager, busy) ==
    LET rest == DropNoData(parts) IN
    IF rest # << >>
    THEN [st |-> BeginDecode(st, h, busy),
          hd |-> [pc |-> "decode", dur |-> Head(rest), rest |-> Tail(rest),
                  msg |-> [inT |-> m.inT, outT |-> m.outT,
                           turnComplete |-> m.turnComplete,
                           interrupted |-> m.interrupted]]]
    ELSE [st |-> ProcessTail(st, m, eager, busy), hd |-> IdleHandler]

Store(r, h) ==
    /\ nextStartTime' = r.st.cursor
    /\ sources' = r.st.srcs
    /\ transcriptionRef' = r.st.ref
    /\ transcription' = r.st.tr
    /\ history' = r.st.hist
    /\ pendingUpdaters' = r.st.pend
    /\ obs' = r.st.o
    /\ handlers' = IF h = 0 THEN handlers ELSE [handlers EXCEPT ![h] = r.hd]

FreeHandler ==
    IF \E h \in Handlers : handlers[h].pc = "idle"
    THEN CHOOSE h \in Handlers :
             handlers[h].pc = "idle" /\ \A j \in 1..(h-1) : handlers[j].pc # "idle"
    ELSE 0

\* onmessage called with message m of session k, lines 98-148
OnMessage(k, m, eager, n) ==
    /\ sessions[k] = "open"
    /\ obs.msgs < n
    /\ LET audio == DropNoData(m.parts) # << >>
           h == IF audio THEN FreeHandler ELSE 0
           st == [Local EXCEPT !.o = [Did(obs, {}) EXCEPT !.msgs = @ + 1]]
       IN /\ audio => h # 0
          /\ Store(Continue(st, h, m.parts, m, eager, Decoding), h)
    /\ UNCHANGED << capture, isActive, isSyncing, closureActive, audioContexts,
                    liveSession, starts, sessions, now >>

\* decodeAudioData (./services/geminiService): its promise resolves at some
\* later point, in no fixed order among the decodes in flight
DecodeResolves(h) == handlers[h].pc = "decode"

\* the decode awaited at line 105 completes in handler h: lines 105-147
DecodeDone(h, eager) ==
    /\ DecodeResolves(h)
    /\ LET st == [Local EXCEPT !.o = Did(obs, {})]
           s1 == ScheduleSource(st, h)
       IN Store(Continue(s1, h, handlers[h].rest, handlers[h].msg, eager,
                         Decoding \ {h}), h)
    /\ UNCHANGED << capture, isActive, isSyncing, closureActive, audioContexts,
                    liveSession, starts, sessions, now >>

\* ------------------------------------------------------------ the platform
\* the 'ended' listener of line 109
SourceEnded(s) ==
    /\ s \in sources
    /\ now >= s.start + s.dur
    /\ sources' = sources \ {s}
    /\ obs' = Did(obs, {})
    /\ UNCHANGED << capture, isActive, isSyncing, closureActive, transcription, history,
                    pendingUpdaters, audioContexts, liveSession, nextStartTime,
                    transcriptionRef, starts, sessions, handlers, now >>

\* outCtx.currentTime advances
Tick(maxT) ==
    /\ audioContexts.made
    /\ now < maxT
    /\ now' = now + 1
    /\ obs' = Did(obs, {})
    /\ UNCHANGED << capture, isActive, isSyncing, closureActive, transcription, history,
                    pendingUpdaters, audioContexts, liveSession, nextStartTime,
                    sources, transcriptionRef, starts, sessions, handlers >>

RECURSIVE ApplyUpdaters(_, _, _)
ApplyUpdaters(prev, n, ref) ==
    IF n = 0 THEN prev ELSE ApplyUpdaters(HistoryUpdater(prev, ref), n - 1, ref)

RECURSIVE Pushed(_, _)
Pushed(n, ref) == IF n = 0 THEN << >> ELSE NewEntries(ref) \o Pushed(n - 1, ref)

\* React renders: the queued updaters are evaluated against the current
\* transcriptionRef, and startSession is re-created over the current isActive
Render ==
    /\ pendingUpdaters > 0 \/ closureActive # isActive
    /\ history' = ApplyUpdaters(history, pendingUpdaters, transcriptionRef)
    /\ pendingUpdaters' = 0
    /\ closureActive' = isActive
    /\ obs' = IF pendingUpdaters > 0
              THEN [Did(obs, {"commit"}) EXCEPT
                      !.prev = history,
                      !.committed = Pushed(pendingUpdaters, transcriptionRef)]
              ELSE Did(obs, {})
    /\ UNCHANGED << capture, isActive, isSyncing, transcription, audioContexts,
                    liveSession, nextStartTime, sources, transcriptionRef,
                    starts, sessions, handlers, now >>

\* ------------------------------------------------------- the specification
\* the toggle, the set-up steps of startSession and the remote callbacks
Lifecycle(S) ==
    \/ ClickStop
    \/ \E k \in S, cin \in CtxStates, cout \in CtxStates : ClickStart(k, cin, cout)
    \/ \E k \in S, ok \in BOOLEAN : ResumeInput(k, ok)
    \/ \E k \in S, ok \in BOOLEAN : ResumeOutput(k, ok)
    \/ \E k \in S, ok \in BOOLEAN : GetUserMedia(k, ok)
    \/ \E k \in S : ConnectResolve(k)
    \/ \E k \in S : ConnectReject(k)
    \/ \E k \in S : OnOpen(k)
    \/ \E k \in S : OnError(k)
    \/ \E k \in S : OnClose(k)

\* the decode completions, the 'ended' events and the output clock
Playback(maxT) ==
    \/ \E h \in Handlers, eager \in BOOLEAN : DecodeDone(h, eager)
    \/ \E s \in sources : SourceEnded(s)
    \/ Tick(maxT)

Inbound(S, M, n) ==
    \E k \in S, m \in M, eager \in BOOLEAN : OnMessage(k, m, eager, n)

\* messages that carry one thing each
Single(m) ==
    Len(m.parts) + Len(m.inT) + Len(m.outT)
      + (IF m.turnComplete THEN 1 ELSE 0) + (IF m.interrupted THEN 1 ELSE 0) = 1

SingleMsgs == {m \in Messages : Single(m) /\ m.parts \in {<< >>, << 0 >>, << 1 >>}
                                /\ m.inT # << << >> >> /\ m.outT # << << >> >>}

Next ==
    \/ Lifecycle(Sessions)
    \/ Inbound(Sessions, SingleMsgs, MaxMsgs)
    \/ Playback(MaxTime)
    \/ Render

Spec == Init /\ [][Next]_vars

\* Playback alone: one start that succeeds, then audio parts (one part of any
\* length, or several unit parts) and interruptions, and remote errors as
\* the stop
AudioMsgs ==
    {m \in Messages :
        /\ m.inT = << >> /\ m.outT = << >> /\ ~m.turnComplete
        /\ IF m.interrupted THEN m.parts = << >>
           ELSE /\ m.parts # << >>
                /\ \A i \in 1..Len(m.parts) : m.parts[i] # 0
                /\ Len(m.parts) > 1 => \A i \in 1..Len(m.parts) : m.parts[i] = 1}

NextPlayback ==
    \/ \E k \in 1..MaxPlaySessions : ClickStart(k, "running", "running")
    \/ \E k \in 1..MaxPlaySessions : GetUserMedia(k, TRUE)
    \/ \E k \in 1..MaxPlaySessions : OnOpen(k)
    \/ \E k \in 1..MaxPlaySessions : ConnectResolve(k)
    \/ \E k \in 1..MaxPlaySessions : OnError(k)
    \/ Inbound(1..MaxPlaySessions, AudioMsgs, MaxAudioMsgs)
    \/ Playback(MaxPlayTime)

SpecPlayback == Init /\ [][NextPlayback]_vars

\* transcription fragments and turn boundaries only
TextMsgs ==
    {m \in Messages : m.parts = << >> /\ ~m.interrupted
                      /\ (m.inT # << >> \/ m.outT # << >> \/ m.turnComplete)}

NextTranscript ==
    \/ Lifecycle(1..MaxTextSessions)
    \/ Inbound(1..MaxTextSessions, TextMsgs, MaxTextMsgs)
    \/ Render

SpecTranscript == Init /\ [][NextTranscript]_vars

\* the microphone: the lifecycle and the blocks the scriptProcessors are given
NextCapture ==
    \/ Lifecycle(1..MaxCapSessions)
    \/ \E k \in 1..MaxCapSessions : OnAudioProcess(k)
    \/ Render

SpecCapture == Init /\ [][NextCapture]_vars

\* the lifecycle alone, where every await of a set-up settles and the remote
\* answers every connect with open, error or close
NextLive ==
    \/ Lifecycle(Sessions)
    \/ Render

\* the callback a connecting session is owed
Answers(k) ==
    /\ sessions[k] = "connecting"
    /\ (OnOpen(k) \/ OnError(k) \/ OnClose(k))

Settles ==
    \A k \in Sessions :
        /\ WF_vars(\E ok \in BOOLEAN : ResumeInput(k, ok))
        /\ WF_vars(\E ok \in BOOLEAN : ResumeOutput(k, ok))
        /\ WF_vars(\E ok \in BOOLEAN : GetUserMedia(k, ok))
        /\ WF_vars(ConnectResolve(k) \/ ConnectReject(k))
        /\ WF_vars(Answers(k))

SpecLive == Init /\ [][NextLive]_vars /\ Settles

\* ------------------------------------------------------------------ claims
\* C1: at most one remote session is open (connected and not closed) at any
\* time, also when startSession is called again while the first is Opening.
C1_OneOpenSession ==
    Cardinality({k \in Sessions : sessions[k] = "open"}) <= 1

\* the state a full teardown leaves
TornDown ==
    /\ liveSession = 0
    /\ \A k \in Sessions : sessions[k] # "open"
    /\ sources = {}
    /\ nextStartTime = 0
    /\ transcriptionRef = EmptyTranscription
    /\ transcription = EmptyTranscription
    /\ ~isActive
    /\ ~isSyncing

\* C7: a remote error, a remote close and an explicit stop each leave the
\* session handle closed and the reference null, the playback set empty, the
\* cursor 0, both transcript accumulators empty and both flags false.
C7_SameTeardown ==
    obs.op \cap {"stop", "onerror", "onclose"} # {} => TornDown

\* started parts that were scheduled on their own: no other decode was in
\* flight while they decoded, and no interruption or stop came in between
Alone(e) == e.solo /\ ~e.stale

LogIdx == 1..Len(obs.log)

\* C2: the decode of a part that was in flight when an interruption or a stop
\* was processed does not start a playback handle: none enters the set.
C2_NoStaleHandle ==
    \A s \in sources : ~s.stale

\* C3: of two parts with no interruption or stop since either arrived, the
\* one that arrived later is never given the earlier start time.
C3_ArrivalOrder ==
    \A i \in LogIdx, j \in LogIdx :
        (~obs.log[i].stale /\ ~obs.log[j].stale /\ obs.log[i].arr < obs.log[j].arr)
            => obs.log[i].start <= obs.log[j].start

\* C4 as stated: the first chunk starts at the clock's time at its
\* scheduling, and each later chunk exactly where the one before it ends.
C4_ZeroGap ==
    \A i \in LogIdx :
        Alone(obs.log[i]) =>
            IF obs.log[i].idx = 1 THEN obs.log[i].start = obs.log[i].at
            ELSE i > 1 => obs.log[i].start = obs.log[i-1].start + obs.log[i-1].dur

\* C4 (amended): chunks scheduled one after another with no interruption or
\* stop in between: the first starts at the clock's time when it arrived, and
\* each later one at the end of the one before it or at the clock's time when
\* it arrived, whichever is later. No overlap; no gap unless it arrived late.
C4_BackToBack ==
    \A i \in LogIdx :
        Alone(obs.log[i]) =>
            IF obs.log[i].idx = 1 THEN obs.log[i].start = obs.log[i].at
            ELSE i > 1 => obs.log[i].start =
                            Max(obs.log[i-1].start + obs.log[i-1].dur, obs.log[i].at)

\* two chunks one after another, the second arrived after the first had ended
C4_Witness ==
    /\ Len(obs.log) = 2
    /\ \A i \in LogIdx : Alone(obs.log[i])
    /\ obs.log[2].idx = 2
    /\ obs.log[2].at > obs.log[1].start + obs.log[1].dur

C6_FreshStart ==
    /\ "interrupted" \in obs.op => sources = {}
    /\ \A i \in LogIdx :
          (obs.log[i].first /\ Alone(obs.log[i])) => obs.log[i].start = obs.log[i].at

\* C8: the conversation history changes only where an updater queued by a
\* turn-complete signal is evaluated; every other step (start, stop, remote
\* open, error and close, audio, fragments, interruptions) leaves it alone.
C8_HistoryFrame ==
    [][history' # history => "commit" \in obs'.op]_vars

\* the history committed in the first session is there when, after its stop,
\* startSession is setting up the second
C8_Witness ==
    /\ history # << >>
    /\ sessions[1] \in {"closing", "closed"}
    /\ isSyncing
    /\ starts[2] \in {"resumeIn", "resumeOut", "media", "connect"}
    /\ sessions[2] \in {"none", "connecting"}

\* C9: the history never holds more than 2 entries, and after a commit it is
\* the last (up to) 2 of the previous history followed by the new entries.
C9_HistoryBounded ==
    /\ Len(history) <= 2
    /\ "commit" \in obs.op =>
          LET all == obs.prev \o obs.committed
              n == IF Len(all) <= 2 THEN Len(all) ELSE 2
          IN /\ Len(history) = n
             /\ \A i \in 1..n : history[i] = all[Len(all) - n + i]

\* a commit onto a full history
C9_Witness ==
    "commit" \in obs.op /\ Len(obs.prev) = 2 /\ Len(obs.committed) >= 1

\* C10: once the update a turn-complete signal queued has been applied, the
\* history has gained one entry per accumulator that was non-empty when the
\* signal was processed, user before model; the signal empties both
\* accumulators.
C10_CommitsText ==
    /\ pendingUpdaters = 0 => history = obs.intended
    /\ "turnComplete" \in obs.op =>
          (transcriptionRef = EmptyTranscription /\ transcription = EmptyTranscription)

\* the controller at rest: both flags false, no reference, no session open
Idle ==
    /\ ~isActive
    /\ ~isSyncing
    /\ liveSession = 0
    /\ \A k \in Sessions : sessions[k] # "open"

\* a step in which a startSession invocation begins a set-up
BeginsSetup == \E k \in Sessions : starts[k] = "none" /\ starts'[k] # "none"

\* C11: while the session is Active no startSession invocation begins a
\* set-up (no microphone acquisition, no connect): the toggle only stops, and
\* the stop leaves the controller Idle.
C11_ToggleStops ==
    [][/\ isActive => ~BeginsSetup
       /\ "stop" \in obs'.op => (~BeginsSetup /\ Idle')]_vars

\* C12 as stated: in every reachable state the playback cursor is at or
\* after the output clock's current time.
C12_CursorAheadOfClock ==
    nextStartTime >= now

\* C12 (amended): every step in which an audio part reaches line 104 leaves
\* the cursor at or after the output clock's current time. Between such steps
\* the clock runs on while the cursor stays (at 0 to begin with and after an
\* interruption or a stop).
C12_RaisedAtArrival ==
    [][obs'.arrivals # obs.arrivals => nextStartTime' >= now']_vars

\* a part arrived with the clock past a cursor at 0, and is being decoded
C12_Witness ==
    /\ now > 0
    /\ nextStartTime = now
    /\ obs.run = 0
    /\ \E h \in Handlers : Decoding = {h} /\ obs.part[h].at = now

\* C13: every handle that a step starts and adds to the playback set is
\* started at a time at or after the output clock's time in that step, also
\* when the clock advanced while its chunk was being decoded.
C13_NotInThePast ==
    [][\A s \in sources' \ sources : s.start >= now']_vars

\* the blocks of the frames sent, in the order sent
SentBlocks(c) == [i \in 1..Len(c.sent) |-> c.sent[i].block]

\* C14: for each scriptProcessor, the frames sent followed by the frames still
\* waiting for the session promise are the blocks captured, one each and in
\* capture order; once the promise has resolved none is waiting.
C14_OneFramePerBlock ==
    \A k \in Sessions :
        /\ SentBlocks(capture[k]) \o capture[k].queued
              = [i \in 1..capture[k].blocks |-> i]
        /\ starts[k] = "done" => capture[k].queued = << >>

\* a block captured before the promise resolved and one captured after it,
\* both sent
C14_Witness ==
    \E k \in Sessions :
        /\ Len(capture[k].sent) = 2
        /\ capture[k].sent[1].early
        /\ ~capture[k].sent[2].early

\* a step in which the set-up of start k fails and its catch block runs
Aborts(k) ==
    /\ starts[k] \in {"resumeIn", "resumeOut", "media", "connect"}
    /\ starts'[k] = "done"
    /\ liveSession' # k

\* C15: the step in which a set-up step of startSession fails leaves the
\* activity and syncing flags false and no session reference stored, begins no
\* new set-up, and leaves the history and both accumulators as they were.
C15_AbortsToIdle ==
    [][(\E k \in Sessions : Aborts(k)) =>
          /\ ~isActive' /\ ~isSyncing' /\ liveSession' = 0
          /\ ~BeginsSetup
          /\ history' = history /\ pendingUpdaters' = pendingUpdaters
          /\ transcriptionRef' = transcriptionRef
          /\ transcription' = transcription]_vars

\* what the claim compares: the playback set, the cursor, the accumulators,
\* the session reference and the flags are as they were
SameOutcome ==
    /\ sources' = sources
    /\ nextStartTime' = nextStartTime
    /\ transcriptionRef' = transcriptionRef
    /\ transcription' = transcription
    /\ liveSession' = liveSession
    /\ isActive' = isActive
    /\ isSyncing' = isSyncing

\* C16: a stop applied right after a stop, and an interruption applied right
\* after an interruption, change nothing of the playback set, the cursor, the
\* accumulators, the session reference and the flags; both can be applied on
\* an empty playback set.
C16_Idempotent ==
    [][("again" \in obs'.op) => SameOutcome]_vars

\* a stop applied right after a stop, on the empty playback set
C16_Witness ==
    /\ "again" \in obs.op
    /\ obs.op \cap {"stop", "onerror"} # {}
    /\ sources = {}

\* lines 242-245: the active-utterance slot shows ai || user
Shown(t) == IF t.ai # EmptyText THEN t.ai ELSE t.user

\* C17: the active-utterance slot shows the model accumulator's contents when
\* that accumulator is non-empty and the user accumulator's otherwise.
C17_DisplayFollowsRef ==
    Shown(transcription) = Shown(transcriptionRef)

\* C18: a step that lowers the playback cursor runs the interrupted branch
\* or stopSession (directly or from onerror); every other step, the
\* scheduling of audio parts included, leaves it where it was or higher.
C18_CursorMonotone ==
    [][nextStartTime' < nextStartTime =>
          obs'.op \cap {"interrupted", "stop", "onerror"} # {}]_vars

\* two parts scheduled one after the other have moved the cursor up twice
C18_Witness ==
    /\ Len(obs.log) = 2
    /\ obs.log[2].start >= obs.log[1].start + obs.log[1].dur
    /\ nextStartTime = obs.log[2].start + obs.log[2].dur
    /\ nextStartTime > now

\* C19: when the updaters queued by turn-complete signals are evaluated at a
\* later render, the entries they commit are the accumulator text as it was
\* when each signal was processed: the history is then what commits made at
\* the signals would have left.
C19_LateUpdaterText ==
    ("commit" \in obs.op /\ "turnComplete" \notin obs.op) =>
        history = obs.intended

\* C20: no frame is handed to a session that has been torn down: every frame
\* a capture callback sent went to a session that was open.
C20_NoSendAfterTeardown ==
    \A k \in Sessions :
        \A i \in 1..Len(capture[k].sent) : capture[k].sent[i].to = "open"

\* C21: a step that stores a session in liveSession.current stores one that
\* is open: the reference is never stored after that session's teardown (a
\* remote error or close delivered before line 169 resumes) has run.
C21_NoRefAfterTeardown ==
    [][(liveSession' # liveSession /\ liveSession' # 0) =>
          sessions[liveSession'] = "open"]_vars

\* C22: whenever the syncing flag is true it eventually becomes false again:
\* every start attempt leaves Opening, given that each await of the set-up
\* settles and the remote answers the connect with open, error or close.
C22_LeavesOpening ==
    isSyncing ~> ~isSyncing

\* a start went through Opening to Active, its connect promise resolved
C22_Witness ==
    /\ isActive
    /\ ~isSyncing
    /\ \E k \in Sessions : starts[k] = "done" /\ liveSession = k

=============================================================================
